---- MODULE Spec2Model ----
(***************************************************************************)
(* Model of GVCSolver (src/src/rsallms/solvers/gvc_2.py): the bounded      *)
(* guesser / validator / consensus retry loop of GVCSolver.guess, the      *)
(* tracking dictionary self.guesses, the feedback built from it, the reply *)
(* parsers and GVCSolver.reset.                                            *)
(*                                                                         *)
(* Strings are modelled as sequences of one-character strings, a reply as  *)
(* the sequence of its lines, a line as its leading keyword and the rest   *)
(* of the line (for a 'Group:' line the rest is already split at ',').     *)
(* The three agents are the environment: each step draws the agent's raw   *)
(* reply from a small set of well-formed and malformed replies.            *)
(***************************************************************************)
EXTENDS Integers, Sequences, FiniteSets

VARIABLES
    pc,                \* position of the caller in guess: idle / guesser / validator / consensus / returned / raised
    op,                \* the last operation step taken
    guesses,           \* self.guesses: insertion-ordered dict, category -> list of word groups
    attempt,           \* loop variable of guess
    group_size,        \* argument of guess
    remaining_words,   \* argument of guess
    feedback,          \* local variable feedback of the current attempt
    guesser_prompt,    \* last prompt built for GuesserAgent
    validator_prompt,  \* last prompt built for ValidatorAgent
    guesser_group,     \* parsed group of the guesser, current attempt
    guesser_category,  \* parsed category of the guesser, current attempt
    validator_group,   \* parsed group of the validator, current attempt
    consensus_result,  \* parsed consensus reply, current attempt
    result,            \* value returned by guess
    error,             \* message of the ValueError raised by guess
    calls,             \* number of guess calls started
    nGuesser,          \* GuesserAgent calls made by the current guess call
    nValidator,        \* ValidatorAgent calls made by the current guess call
    nConsensus,        \* ConsensusAgent calls made by the current guess call
    failed,            \* attempts of the current call that completed without consensus
    cleared            \* "pairs" / "nothing": what the last reset removed, while no guess call has ended since; "no" otherwise

vars == <<pc, op, guesses, attempt, group_size, remaining_words, feedback,
          guesser_prompt, validator_prompt, guesser_group, guesser_category,
          validator_group, consensus_result, result, error, calls,
          nGuesser, nValidator, nConsensus, failed, cleared>>

(***************************************************************************)
(* Bounds and input sets                                                   *)
(***************************************************************************)
MaxCalls == 2      \* guess calls explored
MaxVaried == 2     \* while fewer pairs than this are recorded the guesser's proposal varies freely
MaxCarried == 2    \* a further guess call is explored when at most this many pairs are recorded

max_retries_off == 15 + 1
max_retries == 15

GroupSizes == {3, 4}

W(c) == <<c>>
entire_game_board == <<W("a"), W("b"), W("c"), W("d"), W("e"), W("f")>>
RemainingChoices == {entire_game_board, <<W("a"), W("b"), W("c"), W("d"), W("e")>>}

Range(s) == {s[i] : i \in 1..Len(s)}

None == [type |-> "none"]
Str(s) == [type |-> "str", val |-> s]
Dict(r) == [type |-> "dict", reply |-> r]

NoGroup == <<>>
NoCategory == <<"?">>
NoResult == [returned |-> FALSE]
Err(who, msg) == [who |-> who, msg |-> msg]
NoError == Err("none", "")
NoPrompt == [sent |-> FALSE]

GroupLine(fields) == [head |-> "Group:", rest |-> fields]
CategoryLine(text) == [head |-> "Category:", rest |-> text]
OtherLine == [head |-> "other", rest |-> <<>>]

\* raw comma-separated fields as an agent may write them
RawG1 == <<W("a"), <<" ", "b">>, <<" ", "c">>, <<" ", "d">>>>
RawG2 == <<W("a"), <<" ", "b">>, <<" ", "c">>, <<" ", "e", " ">>>>
RawG1perm == <<W("d"), <<" ", "c">>, <<" ", "b">>, <<" ", "a">>>>
RawG3 == <<W("a"), <<" ", "b">>, <<" ", "c">>>>
RawG5 == <<W("a"), <<" ", "b">>, <<" ", "c">>, <<" ", "d">>, <<" ", "e">>>>
RawCat1 == <<" ", "x">>
RawCat2 == <<" ", "y", " ">>

WellFormedGuesser(g, c) == Str(<<OtherLine, GroupLine(g), CategoryLine(c)>>)

MalformedGuesserReplies ==
    { None,
      Str(<<>>),
      Dict(None),
      Str(<<OtherLine>>),
      Str(<<GroupLine(RawG1)>>),
      Str(<<CategoryLine(RawCat1)>>),
      WellFormedGuesser(RawG3, RawCat1),
      WellFormedGuesser(RawG5, RawCat1) }

VariedProposals == {RawG1, RawG2} \X {RawCat1, RawCat2}
FixedProposals == {<<RawG1, RawCat1>>}

ConsensusReplies ==
    { None,
      Str(<<>>),
      Str(<<"Consensus", "reached">>),
      Dict(Str(<<"consensus", "reached", ".">>)),
      Str(<<"Consensus", "not", "reached">>),
      Str(<<"maybe">>) }

(***************************************************************************)
(* String helpers                                                          *)
(***************************************************************************)
RECURSIVE LStrip(_)
LStrip(s) == IF s # <<>> /\ Head(s) = " " THEN LStrip(Tail(s)) ELSE s

RECURSIVE RStrip(_)
RStrip(s) == IF s # <<>> /\ s[Len(s)] = " " THEN RStrip(SubSeq(s, 1, Len(s) - 1)) ELSE s

\* str.strip()
Strip(s) == RStrip(LStrip(s))

\* str.lower() on the tokens of a consensus reply
LowerTok(t) == CASE t = "Consensus" -> "consensus"
                 [] t = "Reached" -> "reached"
                 [] t = "Not" -> "not"
                 [] OTHER -> t
Lower(s) == [i \in 1..Len(s) |-> LowerTok(s[i])]

\* sub in s
Contains(sub, s) ==
    \E i \in 0..(Len(s) - Len(sub)) : SubSeq(s, i + 1, i + Len(sub)) = sub

\* next((line for line in lines if line.startswith(head)), '')
FirstLine(lines, head) ==
    IF \E i \in 1..Len(lines) : lines[i].head = head
    THEN lines[CHOOSE i \in 1..Len(lines) :
                   /\ lines[i].head = head
                   /\ \A j \in 1..(i - 1) : lines[j].head # head]
    ELSE OtherLine

Ok(v) == [ok |-> TRUE, val |-> v]
Raise(msg) == [ok |-> FALSE, err |-> msg]

ConsensusErr == Err("guess", "Consensus not reached after maximum retries. Unable to make a guess.")

(***************************************************************************)
(* Reply extraction and parsing                                            *)
(***************************************************************************)
\* _extract_reply_str: the reply string, or None
_extract_reply_str(reply) ==
    IF reply.type = "str" THEN reply
    ELSE IF reply.type = "dict"
         THEN (IF reply.reply.type = "str" THEN reply.reply ELSE None)
         ELSE None

\* _get_agent_reply: the reply string, or ValueError when it is None or empty
_get_agent_reply(reply, agent_name) ==
    LET reply_str == _extract_reply_str(reply) IN
    IF reply_str = None \/ reply_str.val = <<>>
    THEN Raise(Err(agent_name, "failed to generate a valid reply."))
    ELSE Ok(reply_str.val)

parse_guesser_reply(lines) ==
    LET group_line == FirstLine(lines, "Group:")
        category_line == FirstLine(lines, "Category:")
        group == [i \in 1..Len(group_line.rest) |-> Strip(group_line.rest[i])]
        category == Strip(category_line.rest)
    IN  IF group_line = OtherLine /\ category_line = OtherLine
        THEN Raise(Err("GuesserAgent", "reply is missing both 'Group' and 'Category'."))
        ELSE IF group_line = OtherLine
        THEN Raise(Err("GuesserAgent", "reply is missing 'Group'."))
        ELSE IF category_line = OtherLine
        THEN Raise(Err("GuesserAgent", "reply is missing 'Category'."))
        ELSE IF Len(group) # 4
        THEN Raise(Err("GuesserAgent", "group does not contain exactly 4 words."))
        ELSE Ok([group |-> group, category |-> category])

parse_validator_reply(lines) ==
    LET group_line == FirstLine(lines, "Group:")
        group == [i \in 1..Len(group_line.rest) |-> Strip(group_line.rest[i])]
    IN  IF group_line = OtherLine
        THEN Raise(Err("ValidatorAgent", "reply is missing 'Group'."))
        ELSE IF Len(group) # 4
        THEN Raise(Err("ValidatorAgent", "group does not contain exactly 4 words."))
        ELSE Ok(group)

parse_consensus_reply(reply) ==
    LET normalized == Lower(Strip(reply)) IN
    IF Contains(<<"consensus", "reached">>, normalized) THEN TRUE
    ELSE IF Contains(<<"consensus", "not", "reached">>, normalized) THEN FALSE
    ELSE FALSE

(***************************************************************************)
(* self.guesses and the feedback built from it                             *)
(***************************************************************************)
Categories(g) == {g[i].category : i \in 1..Len(g)}

IndexOf(g, category) == CHOOSE i \in 1..Len(g) : g[i].category = category

\* if category not in self.guesses: self.guesses[category] = []
\* self.guesses[category].append(tuple(group))
Record(g, category, group) ==
    LET g1 == IF category \in Categories(g) THEN g
              ELSE Append(g, [category |-> category, word_groups |-> <<>>])
        k == IndexOf(g1, category)
    IN  [g1 EXCEPT ![k].word_groups = Append(@, group)]

\* self.guesses.clear()
ResetGuessesKeepKeys(g) == [i \in 1..Len(g) |-> [g[i] EXCEPT !.word_groups = <<>>]]
ResetGuesses(g) == <<>>

RECURSIVE NumPairs(_)
NumPairs(g) == IF g = <<>> THEN 0 ELSE Len(Head(g).word_groups) + NumPairs(Tail(g))

\* the (category, word group) pairs held by a dict
PairsOf(g) == UNION {{<<g[i].category, g[i].word_groups[j]>> :
                          j \in 1..Len(g[i].word_groups)} : i \in 1..Len(g)}

\* successful = list(set(entire_game_board) - set(remaining_words))
Successful(remaining) == Range(entire_game_board) \ Range(remaining)

\* the feedback text of one attempt, as its sequence of lines ('' is <<>>)
FeedbackLastOnly(g, successful) ==
    IF g # <<>>
    THEN <<[kind |-> "note"], [kind |-> "header"]>>
         \o [i \in 1..Len(g) |->
               [kind |-> "item", category |-> g[i].category,
                word_groups |-> <<g[i].word_groups[Len(g[i].word_groups)]>>]]
         \o (IF successful # {} THEN <<[kind |-> "successful", words |-> successful]>> ELSE <<>>)
    ELSE <<>>
Feedback(g, successful) ==
    IF g # <<>>
    THEN <<[kind |-> "note"]>>
         \o (IF g # <<>>
             THEN <<[kind |-> "header"]>>
                  \o [i \in 1..Len(g) |->
                        [kind |-> "item", category |-> g[i].category,
                         word_groups |-> g[i].word_groups]]
             ELSE <<>>)
         \o (IF successful # {} THEN <<[kind |-> "successful", words |-> successful]>> ELSE <<>>)
    ELSE <<>>

GuesserPrompt(fb, remaining, gs) ==
    [sent |-> TRUE, feedback |-> fb, words |-> remaining, group_size |-> gs]

ValidatorPrompt(fb, remaining, category) ==
    [sent |-> TRUE, feedback |-> fb, words |-> remaining, category |-> category]

\* return tuple(guesser_group), guesser_category
ReturnValueValidator(gg, vg, category) == [returned |-> TRUE, group |-> vg, category |-> category]
ReturnValue(gg, vg, category) == [returned |-> TRUE, group |-> gg, category |-> category]

\* if attempt == max_retries
LastAttemptEarly(a) == a >= max_retries - 1
LastAttempt(a) == a = max_retries

(***************************************************************************)
(* The agents' replies                                                     *)
(***************************************************************************)
GuesserReplies(g) ==
    MalformedGuesserReplies
    \cup {WellFormedGuesser(p[1], p[2]) :
            p \in (IF NumPairs(g) < MaxVaried THEN VariedProposals ELSE FixedProposals)}
    \cup (IF NumPairs(g) < MaxVaried
          THEN {Dict(Str(<<GroupLine(RawG2), GroupLine(RawG1), CategoryLine(RawCat1)>>))}
          ELSE {})

ValidatorReplies ==
    { None,
      Str(<<>>),
      Str(<<OtherLine>>),
      Str(<<GroupLine(RawG3)>>),
      Str(<<GroupLine(RawG1)>>),
      Str(<<OtherLine, GroupLine(RawG1perm)>>),
      Dict(Str(<<GroupLine(RawG2)>>)) }

(***************************************************************************)
(* State machine                                                           *)
(***************************************************************************)
Init ==
    /\ pc = "idle"
    /\ op = "init"
    /\ guesses = <<>>
    /\ attempt = 0
    /\ group_size = 4
    /\ remaining_words = entire_game_board
    /\ feedback = <<>>
    /\ guesser_prompt = NoPrompt
    /\ validator_prompt = NoPrompt
    /\ guesser_group = NoGroup
    /\ guesser_category = NoCategory
    /\ validator_group = NoGroup
    /\ consensus_result = FALSE
    /\ result = NoResult
    /\ error = NoError
    /\ calls = 0
    /\ nGuesser = 0
    /\ nValidator = 0
    /\ nConsensus = 0
    /\ failed = 0
    /\ cleared = "no"

Idle == pc \in {"idle", "returned", "raised"}

\* guess leaves with a return value
Return(value) ==
    /\ pc' = "returned"
    /\ result' = value
    /\ error' = NoError
    /\ cleared' = "no"

\* guess leaves with ValueError(err)
RaiseValueError(err) ==
    /\ pc' = "raised"
    /\ result' = NoResult
    /\ error' = err
    /\ cleared' = "no"

\* head of the loop body for attempt a (lines 89-129): the feedback and the
\* guesser prompt are built from self.guesses as it is at that moment; when
\* the range is exhausted the statement after the loop raises
LoopHead(a, g, remaining, gs) ==
    IF a \in 1..max_retries
    THEN /\ attempt' = a
         /\ feedback' = Feedback(g, Successful(remaining))
         /\ guesser_prompt' = GuesserPrompt(Feedback(g, Successful(remaining)), remaining, gs)
         /\ pc' = "guesser"
         /\ UNCHANGED <<result, error, cleared>>
    ELSE /\ RaiseValueError(ConsensusErr)
         /\ UNCHANGED <<attempt, feedback, guesser_prompt>>

\* a caller (play, or any other) calls guess(remaining, entire_game_board, gs)
GuessBegin ==
    /\ Idle
    /\ calls < MaxCalls
    /\ NumPairs(guesses) <= MaxCarried
    /\ \E remaining \in RemainingChoices, gs \in GroupSizes :
          /\ remaining_words' = remaining
          /\ group_size' = gs
          /\ result' = NoResult
          /\ error' = NoError
          /\ cleared' = cleared
          /\ attempt' = 1
          /\ feedback' = Feedback(guesses, Successful(remaining))
          /\ guesser_prompt' = GuesserPrompt(Feedback(guesses, Successful(remaining)), remaining, gs)
          /\ pc' = "guesser"
    /\ op' = "begin"
    /\ calls' = calls + 1
    /\ nGuesser' = 0
    /\ nValidator' = 0
    /\ nConsensus' = 0
    /\ failed' = 0
    /\ validator_prompt' = NoPrompt
    /\ guesser_group' = NoGroup
    /\ guesser_category' = NoCategory
    /\ validator_group' = NoGroup
    /\ consensus_result' = FALSE
    /\ UNCHANGED guesses

\* Step 1 (lines 132-165): GuesserAgent replies, the reply is parsed, the
\* validator prompt is built
GuesserStep ==
    /\ pc = "guesser"
    /\ op' = "guesser"
    /\ nGuesser' = nGuesser + 1
    /\ \E raw \in GuesserReplies(guesses) :
          LET guesser_reply == _get_agent_reply(raw, "GuesserAgent")
              parsed == parse_guesser_reply(guesser_reply.val)
          IN  IF ~guesser_reply.ok
              THEN /\ RaiseValueError(guesser_reply.err)
                   /\ UNCHANGED <<guesser_group, guesser_category, validator_prompt>>
              ELSE IF ~parsed.ok
              THEN /\ RaiseValueError(parsed.err)
                   /\ UNCHANGED <<guesser_group, guesser_category, validator_prompt>>
              ELSE /\ guesser_group' = parsed.val.group
                   /\ guesser_category' = parsed.val.category
                   /\ validator_prompt' =
                         ValidatorPrompt(feedback, remaining_words, parsed.val.category)
                   /\ pc' = "validator"
                   /\ UNCHANGED <<result, error, cleared>>
    /\ UNCHANGED <<guesses, attempt, group_size, remaining_words, feedback,
                   guesser_prompt, validator_group, consensus_result, calls,
                   nValidator, nConsensus, failed>>

\* Step 2 (lines 168-183): ValidatorAgent replies, the reply is parsed
ValidatorStep ==
    /\ pc = "validator"
    /\ op' = "validator"
    /\ nValidator' = nValidator + 1
    /\ \E raw \in ValidatorReplies :
          LET validator_reply == _get_agent_reply(raw, "ValidatorAgent")
              parsed == parse_validator_reply(validator_reply.val)
          IN  IF ~validator_reply.ok
              THEN /\ RaiseValueError(validator_reply.err)
                   /\ UNCHANGED validator_group
              ELSE IF ~parsed.ok
              THEN /\ RaiseValueError(parsed.err)
                   /\ UNCHANGED validator_group
              ELSE /\ validator_group' = parsed.val
                   /\ pc' = "consensus"
                   /\ UNCHANGED <<result, error, cleared>>
    /\ UNCHANGED <<guesses, attempt, group_size, remaining_words, feedback,
                   guesser_prompt, validator_prompt, guesser_group,
                   guesser_category, consensus_result, calls,
                   nGuesser, nConsensus, failed>>

\* Step 3 (lines 185-209): ConsensusAgent replies; on consensus the pair is
\* recorded and returned, otherwise it is recorded and the loop goes on or,
\* at the last attempt, raises
ConsensusStep ==
    /\ pc = "consensus"
    /\ op' = "consensus"
    /\ nConsensus' = nConsensus + 1
    /\ \E raw \in ConsensusReplies :
          LET consensus_reply == _get_agent_reply(raw, "ConsensusAgent")
              recorded == Record(guesses, guesser_category, guesser_group)
          IN  IF ~consensus_reply.ok
              THEN /\ RaiseValueError(consensus_reply.err)
                   /\ UNCHANGED <<guesses, consensus_result, failed, attempt,
                                  feedback, guesser_prompt>>
              ELSE /\ consensus_result' = parse_consensus_reply(consensus_reply.val)
                   /\ guesses' = recorded
                   /\ IF parse_consensus_reply(consensus_reply.val)
                      THEN /\ Return(ReturnValue(guesser_group, validator_group, guesser_category))
                           /\ UNCHANGED <<failed, attempt, feedback, guesser_prompt>>
                      ELSE /\ failed' = failed + 1
                           /\ IF LastAttempt(attempt)
                              THEN /\ RaiseValueError(ConsensusErr)
                                   /\ UNCHANGED <<attempt, feedback, guesser_prompt>>
                              ELSE LoopHead(attempt + 1, recorded, remaining_words, group_size)
    /\ UNCHANGED <<group_size, remaining_words, validator_prompt, guesser_group,
                   guesser_category, validator_group, calls, nGuesser, nValidator>>

\* a caller calls reset() between two guess calls; the locals of the guess
\* call that ended before it no longer exist
Reset ==
    /\ Idle
    /\ op' = "reset"
    /\ pc' = "idle"
    /\ guesses' = ResetGuesses(guesses)
    /\ cleared' = IF guesses # <<>> THEN "pairs" ELSE "nothing"
    /\ result' = NoResult
    /\ error' = NoError
    /\ attempt' = 0
    /\ feedback' = <<>>
    /\ guesser_prompt' = NoPrompt
    /\ validator_prompt' = NoPrompt
    /\ guesser_group' = NoGroup
    /\ guesser_category' = NoCategory
    /\ validator_group' = NoGroup
    /\ consensus_result' = FALSE
    /\ nGuesser' = 0
    /\ nValidator' = 0
    /\ nConsensus' = 0
    /\ failed' = 0
    /\ UNCHANGED <<group_size, remaining_words, calls>>

Next ==
    \/ GuessBegin
    \/ GuesserStep
    \/ ValidatorStep
    \/ ConsensusStep
    \/ Reset

Spec == Init /\ [][Next]_vars

(***************************************************************************)
(* Properties                                                              *)
(***************************************************************************)
InCall == pc \in {"guesser", "validator", "consensus"}

IsPrefix(s, t) == Len(s) <= Len(t) /\ SubSeq(t, 1, Len(s)) = s

\* every key of g is still a key of h, at the same place, and its list of
\* groups in h starts with its list in g
Preserved(g, h) ==
    /\ Len(g) <= Len(h)
    /\ \A i \in 1..Len(g) :
          /\ h[i].category = g[i].category
          /\ IsPrefix(g[i].word_groups, h[i].word_groups)

\* the feedback text fb names the pair (category, group)
Lists(fb, g) ==
    \A p \in PairsOf(g) :
       \E i \in 1..Len(fb) :
          /\ fb[i].kind = "item"
          /\ fb[i].category = p[1]
          /\ p[2] \in Range(fb[i].word_groups)

\* how often the pair (category, group) is stored in g
Occurrences(g, category, group) ==
    IF category \in Categories(g)
    THEN Cardinality({j \in 1..Len(g[IndexOf(g, category)].word_groups) :
                         g[IndexOf(g, category)].word_groups[j] = group})
    ELSE 0

\* C1: a guess call never goes beyond 15 attempts: the attempt counter and
\* the number of guesser, validator and consensus calls of one guess call
\* stay at most 15, and a call that has ended has either returned a
\* (group, category) pair or raised ValueError, never both.
C1_AtMostFifteenAttempts ==
    /\ attempt <= 15
    /\ nGuesser <= 15
    /\ nValidator <= 15
    /\ nConsensus <= 15
    /\ InCall => nGuesser <= attempt /\ nValidator <= attempt /\ nConsensus < attempt
    /\ pc = "returned" => result.returned /\ error = NoError
    /\ pc = "raised" => ~result.returned /\ error # NoError

C1_Witness ==
    /\ pc = "raised"
    /\ attempt = 15
    /\ nGuesser = 15
    /\ nValidator = 15
    /\ nConsensus = 15

\* C2: guess raises ValueError('Consensus not reached after maximum
\* retries...') exactly when 15 attempts of the call completed (guesser and
\* validator replies parsed) with a failed consensus check each, and then
\* nothing is returned.
C2_ConsensusErrorExactlyAfterFifteenFailures ==
    /\ (pc = "raised" /\ error = ConsensusErr) <=> (failed = 15)
    /\ failed = 15 => ~result.returned /\ nGuesser = 15 /\ nValidator = 15 /\ nConsensus = 15

C2_Witness ==
    /\ pc = "raised"
    /\ error = ConsensusErr
    /\ failed = 15
    /\ Len(guesses) = 2

\* C3: guess returns only in an attempt whose consensus reply parsed as
\* reached, at the first such attempt of the call (all earlier attempts
\* failed), and the returned pair is the guesser's group and category of
\* that attempt.
C3_ReturnsGuesserPairAtFirstConsensus ==
    /\ pc = "returned" =>
          /\ consensus_result
          /\ failed = attempt - 1
          /\ nConsensus = attempt
          /\ result = [returned |-> TRUE, group |-> guesser_group,
                       category |-> guesser_category]
          /\ validator_prompt.category = guesser_category
    /\ consensus_result => pc = "returned"

C3_Witness ==
    /\ pc = "returned"
    /\ attempt = 3
    /\ result.group = guesser_group
    /\ validator_group # guesser_group
    /\ <<result.category, validator_group>> \in PairsOf(guesses)

\* C4: whenever guess returns a group, the guesser's group and the
\* validator's group of that attempt contain exactly the same words,
\* regardless of order.
C4_ReturnedGroupsHaveSameWords ==
    pc = "returned" => Range(guesser_group) = Range(validator_group)

\* C5: no attempt proposes, and no call returns, a (category, word group)
\* pair that self.guesses already holds from an earlier attempt or call.
C5_NoRecordedPairRepeated ==
    /\ pc \in {"validator", "consensus"} =>
          <<guesser_category, guesser_group>> \notin PairsOf(guesses)
    /\ pc = "returned" => Occurrences(guesses, result.category, result.group) = 1

\* C6: reset leaves self.guesses empty; the first attempt of the guess call
\* that follows a reset sends an empty feedback section to the guesser and
\* to the validator, whatever was recorded before and whatever words are
\* already solved; and no step other than reset removes a recorded pair.
C6_AfterReset ==
    /\ op = "reset" => guesses = <<>>
    /\ (cleared # "no" /\ attempt = 1 /\ InCall) =>
          /\ guesser_prompt.feedback = <<>>
          /\ validator_prompt.sent => validator_prompt.feedback = <<>>

C6_OnlyResetRemoves == op' # "reset" => Preserved(guesses, guesses')

C6_ResetClearsAndOnlyReset == [] C6_AfterReset /\ [][C6_OnlyResetRemoves]_vars

C6_Witness ==
    /\ cleared = "pairs"
    /\ pc = "consensus"
    /\ attempt = 1
    /\ validator_prompt.feedback = <<>>
    /\ Successful(remaining_words) # {}

\* C7: the group returned by guess has exactly group_size words, for every
\* group_size the caller passes.
C7_ReturnedGroupHasGroupSizeWords ==
    pc = "returned" => Len(result.group) = group_size

\* C8: in every attempt the feedback sent to the guesser and to the
\* validator lists every (category, word group) pair recorded in
\* self.guesses so far; each completed attempt appends exactly one pair,
\* the guesser's, and every other step except reset leaves self.guesses
\* as it is.
C8_FeedbackListsAll ==
    InCall =>
       /\ guesser_prompt.feedback = feedback
       /\ Lists(guesser_prompt.feedback, guesses)
       /\ pc # "guesser" =>
             /\ validator_prompt.feedback = feedback
             /\ Lists(validator_prompt.feedback, guesses)

C8_AttemptCompletes == pc = "consensus" /\ (pc' = "returned" \/ failed' = failed + 1)

C8_OnePairPerAttempt ==
    IF C8_AttemptCompletes
    THEN /\ Preserved(guesses, guesses')
         /\ NumPairs(guesses') = NumPairs(guesses) + 1
         /\ LET wg == guesses'[IndexOf(guesses', guesser_category)].word_groups
            IN  wg[Len(wg)] = guesser_group
    ELSE op' # "reset" => guesses' = guesses

C8_FeedbackAndRecording == [] C8_FeedbackListsAll /\ [][C8_OnePairPerAttempt]_vars

C8_Witness ==
    /\ pc = "validator"
    /\ attempt >= 4
    /\ Len(guesses) = 2
    /\ Cardinality(PairsOf(guesses)) >= 2
    /\ NumPairs(guesses) > Cardinality(PairsOf(guesses))

\* C9: every group stored in self.guesses is one whose attempt failed: the
\* dict never holds the pair on which consensus was reached and which guess
\* has returned.
C9_OnlyFailedGroupsRecorded ==
    pc = "returned" => <<result.category, result.group>> \notin PairsOf(guesses)

====
